---- MODULE Spec2Model ----
(***************************************************************************)
(* C-Suite: the module generator (tools/script/generate_module.py) and the *)
(* integration-test utilities (integration_tests/csuite_test_utils.py,     *)
(* csuite_crash_detection_test.py) as state machines.                      *)
(*                                                                         *)
(* Text is a sequence of fragments (one-character strings, or one string   *)
(* standing for a fixed piece of text such as a license header).  A name   *)
(* of a directory entry, a line of a package list and the content of a     *)
(* file are all such sequences.  A path below root_dir is a sequence of    *)
(* names; root_dir itself is the empty path.                               *)
(***************************************************************************)
EXTENDS Integers, Sequences, FiniteSets, TLC

VARIABLES
    fs,         \* generator: the tree below root_dir, path -> [dir, text]
    last,       \* generator: the last call made, its package set, its outcome
    pkg_file,   \* parse_package_list: the lines of the file it is given
    pkg_out,    \* parse_package_list: what it has yielded, in order
    pkg_done,   \* parse_package_list: the generator is exhausted
    run,        \* run_and_verify: one execution (position, device, results)
    twin,       \* run_and_verify: a second execution in the same environment
                \* whose harness exits and prints independently of the first
    environ,    \* run_and_wait: os.environ of the calling process
    env_call,   \* run_and_wait: what the call did (raised, or launched with env)
    repo,       \* PackageRepository: package directory -> file name -> content
    repo_last,  \* PackageRepository: the calls made so far and the last outcome
    adb_device, \* Adb: the packages installed on the device
    adb_last,   \* Adb: the last call, what the command did, what the call did
    tmp_dirs,   \* scoped storage: the temporary directories that exist
    scope,      \* scoped storage: a test body's position and its resources
    xml_call    \* write_test_module: the package name given, the text written

genVars == <<fs, last>>
parseVars == <<pkg_file, pkg_out, pkg_done>>
runVars == <<run, twin>>
envVars == <<environ, env_call>>
repoVars == <<repo, repo_last>>
adbVars == <<adb_device, adb_last>>
scopeVars == <<tmp_dirs, scope>>
xmlVars == <<xml_call>>

vars ==
    <<fs, last, pkg_file, pkg_out, pkg_done, run, twin, environ, env_call, repo, repo_last,
      adb_device, adb_last, tmp_dirs, scope, xml_call>>

-----------------------------------------------------------------------------
(* Bounds of the model.                                                    *)

MaxListLines == 2       \* lines of a package list file given to the generator
MaxInitEntries == 2     \* entries placed below root_dir before the first call
MaxParseLines == 2      \* lines of a file given to parse_package_list alone
MaxLineLen == 2         \* characters of such a line
MaxApkPaths == 2        \* apk paths given to one add_package_apks call
MaxRepoCalls == 3       \* add_package_apks calls on one PackageRepository
MaxNameLen == 3         \* characters of a package name given to write_test_module
MaxBodySteps == 4       \* cleanup() and add_module calls in one with block

-----------------------------------------------------------------------------
(* Text helpers.                                                           *)

Whitespace == {" ", "\t", "\n"}

RECURSIVE LStrip(_)
LStrip(s) ==
    IF s # <<>> /\ Head(s) \in Whitespace THEN LStrip(Tail(s)) ELSE s

RECURSIVE RStrip(_)
RStrip(s) ==
    IF s # <<>> /\ s[Len(s)] \in Whitespace
    THEN RStrip(SubSeq(s, 1, Len(s) - 1))
    ELSE s

\* str.strip()
Strip(s) == RStrip(LStrip(s))

\* str.startswith(c) for a one-character prefix
StartsWith(s, c) == s # <<>> /\ Head(s) = c

\* `needle in text` where the needle is one fragment
Contains(text, needle) == \E i \in 1..Len(text) : text[i] = needle

SeqsUpTo(S, n) == UNION {[1..k -> S] : k \in 0..n}

Range(s) == {s[i] : i \in 1..Len(s)}

\* the subsets of S of at most n elements
RECURSIVE SubsetsUpTo(_, _)
SubsetsUpTo(S, n) ==
    IF n = 0
    THEN {{}}
    ELSE LET smaller == SubsetsUpTo(S, n - 1)
         IN  smaller \cup {T \cup {s} : T \in smaller, s \in S}

\* the orders in which a set may be iterated
Orders(S) ==
    {o \in [1..Cardinality(S) -> S] : \A i, j \in 1..Cardinality(S) : i # j => o[i] # o[j]}

-----------------------------------------------------------------------------
(* generate_module.py: constants.                                          *)

AUTO_GENERATE_NOTE == "THIS FILE WAS AUTO-GENERATED. DO NOT EDIT MANUALLY!"
ANDROID_BP_FILE_NAME == <<"Android.bp">>
ANDROID_XML_FILE_NAME == <<"AndroidTest.xml">>

BUILD_MODULE_HEADER == <<"// Copyright (C) 2019 ...", "// ", AUTO_GENERATE_NOTE, "\n">>

BuildModuleTemplate(package_name) ==
    <<"csuite_config { name: csuite_">> \o package_name \o <<" }">>

TEST_MODULE_HEADER ==
    <<"<?xml version=1.0?>", "<!-- Copyright (C) 2019 ... -->", "<!-- ", AUTO_GENERATE_NOTE, "-->">>

-----------------------------------------------------------------------------
(* The file system below root_dir.                                         *)

DirNode == [dir |-> TRUE, text |-> <<>>]
FileNode(text) == [dir |-> FALSE, text |-> text]

Parent(p) == SubSeq(p, 1, Len(p) - 1)

\* os.path.isdir
IsDir(f, p) == p = <<>> \/ (p \in DOMAIN f /\ f[p].dir)

\* os.listdir, as paths
Listdir(f, p) == {q \in DOMAIN f : Len(q) = Len(p) + 1 /\ Parent(q) = p}

IsUnder(q, p) == Len(q) > Len(p) /\ SubSeq(q, 1, Len(p)) = p

Without(f, gone) == [q \in DOMAIN f \ gone |-> f[q]]

\* a name glob's `*` does not match: one that begins with a dot
Hidden(name) == StartsWith(name, ".")

\* glob.iglob(root_dir + '/**/' + file_name) without recursive=True: `**`
\* is an ordinary `*`, one directory level, hidden names excluded.  (No
\* directory of the model bears a descriptor's name.)
GlobStarStarNonRecursive(f, file_name) ==
    {q \in DOMAIN f : Len(q) = 2 /\ q[2] = file_name /\ ~Hidden(q[1]) /\ ~f[q].dir}

GlobStarStar(f, file_name) == GlobStarStarNonRecursive(f, file_name)

\* _is_auto_generated, on the content read
IsAutoGenerated(text) == Contains(text, AUTO_GENERATE_NOTE)

\* one loop of remove_existing_package_files
RemoveGenerated(f, file_name) ==
    Without(f, {q \in GlobStarStar(f, file_name) : IsAutoGenerated(f[q].text)})

\* _remove_empty_dirs descending into every directory below path
RemoveEmptyDirsAtAnyDepth(f, path) ==
    Without(f, {q \in DOMAIN f : IsUnder(q, path) /\ IsDir(f, q) /\ Listdir(f, q) = {}})

\* _remove_empty_dirs: the entries of path itself, hidden ones included
RemoveEmptyDirs(f, path) ==
    Without(f, {q \in Listdir(f, path) : IsDir(f, q) /\ Listdir(f, q) = {}})

RemoveExistingPackageFiles(f) ==
    RemoveEmptyDirs(
        RemoveGenerated(RemoveGenerated(f, ANDROID_XML_FILE_NAME), ANDROID_BP_FILE_NAME),
        <<>>)

\* the directories os.rmdir is called on in remove_existing_package_files
Rmdirs(f) == {q \in DOMAIN f : f[q].dir /\ q \notin DOMAIN RemoveExistingPackageFiles(f)}

-----------------------------------------------------------------------------
(* parse_package_list.                                                     *)

\* packages = {line.strip() for line in package_list_file.readlines()}
PackageSetUnstripped(lines) == Range(lines)

PackageSet(lines) == {Strip(lines[i]) : i \in 1..Len(lines)}

\* if package and not package.startswith('#')
Wanted(package) == package # <<>> /\ ~StartsWith(package, "#")

\* the sequences the generator may yield: the set is iterated in some order
ParsePackageList(lines) == {SelectSeq(o, Wanted) : o \in Orders(PackageSet(lines))}

-----------------------------------------------------------------------------
(* _generate_module_files and what it writes.                              *)

\* write_build_module
BuildModule(package_name) == BUILD_MODULE_HEADER \o BuildModuleTemplate(package_name)

\* str.replace(old, new) on a text of characters
RECURSIVE Replace(_, _, _)
Replace(text, old, new) ==
    IF Len(text) < Len(old)
    THEN text
    ELSE IF SubSeq(text, 1, Len(old)) = old
    THEN new \o Replace(SubSeq(text, Len(old) + 1, Len(text)), old, new)
    ELSE <<Head(text)>> \o Replace(Tail(text), old, new)

AMP == <<"&", "a", "m", "p", ";">>
LT == <<"&", "l", "t", ";">>
GT == <<"&", "g", "t", ";">>
QUOT == <<"&", "q", "u", "o", "t", ";">>
TAB == <<"&", "#", "0", "9", ";">>
NEWLINE == <<"&", "#", "1", "0", ";">>

\* the references an XML parser resolves in an attribute value
References ==
    (AMP :> "&") @@ (LT :> "<") @@ (GT :> ">") @@ (QUOT :> "\"")
        @@ (TAB :> "\t") @@ (NEWLINE :> "\n")

\* ET.tostring: _escape_attrib
EscapeAttrib(text) ==
    Replace(Replace(Replace(Replace(Replace(Replace(text,
        <<"&">>, AMP), <<"<">>, LT), <<">">>, GT), <<"\"">>, QUOT),
        <<"\n">>, NEWLINE), <<"\t">>, TAB)

\* an XML parser on the characters between the quotes of an attribute: a
\* bare `<`, a bare quote and an `&` that begins no reference are errors;
\* literal white space is normalized to a space
RECURSIVE ParseAttribute(_)
ParseAttribute(chars) ==
    IF chars = <<>>
    THEN [well_formed |-> TRUE, value |-> <<>>]
    ELSE IF Head(chars) \in {"<", "\""}
    THEN [well_formed |-> FALSE, value |-> <<>>]
    ELSE IF Head(chars) = "&"
    THEN LET refs == {r \in DOMAIN References :
                         Len(r) <= Len(chars) /\ SubSeq(chars, 1, Len(r)) = r}
         IN  IF refs = {}
             THEN [well_formed |-> FALSE, value |-> <<>>]
             ELSE LET r == CHOOSE x \in refs : TRUE
                      rest == ParseAttribute(SubSeq(chars, Len(r) + 1, Len(chars)))
                  IN  [well_formed |-> rest.well_formed,
                       value |-> <<References[r]>> \o rest.value]
    ELSE LET rest == ParseAttribute(Tail(chars))
         IN  [well_formed |-> rest.well_formed,
              value |-> <<IF Head(chars) \in {"\t", "\n"} THEN " " ELSE Head(chars)>>
                            \o rest.value]

\* minidom: _write_data on an attribute value
MinidomWriteData(text) ==
    Replace(Replace(Replace(Replace(text,
        <<"&">>, AMP), <<"<">>, LT), <<"\"">>, QUOT), <<">">>, GT)

\* saxutils.unescape, no extra entities
Unescape(data) ==
    Replace(Replace(Replace(data, LT, <<"<">>), GT, <<">">>), AMP, <<"&">>)

PACKAGE_NAME_OPTION == "<option name=\"package-name\" value=\""
CLOSE_OPTION == "\"/>"

\* parsed.toprettyxml(indent='    ') of the configuration element: the
\* attribute value is what minidom read from ET.tostring's output
PrettyXml(package_name) ==
    <<"<configuration description=\"Tests the compatibility of apps\">",
      "<option name=\"config-descriptor:metadata\" key=\"plan\" value=\"app-launch\"/>",
      PACKAGE_NAME_OPTION>>
        \o MinidomWriteData(ParseAttribute(EscapeAttrib(package_name)).value)
        \o <<CLOSE_OPTION, "<target_preparer/>...", "<test/>", "</configuration>">>

\* _prettify
Prettify(package_name) == Unescape(PrettyXml(package_name))

\* write_test_module: the header, then the prettified configuration element
TestModule(package_name) == TEST_MODULE_HEADER \o Prettify(package_name)

\* os.mkdir(exist_ok=True) in place of os.mkdir
CreatePackageDirExistOk(f, package_name) ==
    [fs |-> [q \in DOMAIN f \cup {<<package_name>>} |->
                IF q = <<package_name>> THEN DirNode ELSE f[q]],
     err |-> "ok"]

\* _create_package_dir: os.mkdir raises when the path exists, as a directory
\* or as a file
CreatePackageDir(f, package_name) ==
    IF <<package_name>> \in DOMAIN f
    THEN [fs |-> f, err |-> "FileExistsError"]
    ELSE [fs |-> [q \in DOMAIN f \cup {<<package_name>>} |->
                     IF q = <<package_name>> THEN DirNode ELSE f[q]],
          err |-> "ok"]

\* open(path, 'w') and write: creates or truncates
WriteFile(f, path, text) ==
    [q \in DOMAIN f \cup {path} |-> IF q = path THEN FileNode(text) ELSE f[q]]

GenerateModuleFiles(f, package_name) ==
    LET made == CreatePackageDir(f, package_name)
        build_module_path == <<package_name, ANDROID_BP_FILE_NAME>>
        test_module_path == <<package_name, ANDROID_XML_FILE_NAME>>
    IN  IF made.err # "ok"
        THEN made
        ELSE [fs |-> WriteFile(WriteFile(made.fs, build_module_path, BuildModule(package_name)),
                               test_module_path, TestModule(package_name)),
              err |-> "ok"]

\* the for loop of generate_all_modules_from_config: stops at the first raise
RECURSIVE GenerateLoop(_, _)
GenerateLoop(f, yielded) ==
    IF yielded = <<>>
    THEN [fs |-> f, err |-> "ok"]
    ELSE LET r == GenerateModuleFiles(f, Strip(Head(yielded)))
         IN  IF r.err # "ok" THEN r ELSE GenerateLoop(r.fs, Tail(yielded))

-----------------------------------------------------------------------------
(* The generator as a state machine: calls on one root_dir.                *)

NameA == <<"a">>
NameB == <<"b">>
NameHidden == <<".", "a">>
NOTES_FILE_NAME == <<"notes.txt">>

\* lines a package list given to the generator is made of
GenLines == {NameA, NameB, NameHidden, <<" ", "a", "\n">>, <<"#", "a">>, <<"\n">>}

PackageListFiles == SeqsUpTo(GenLines, MaxListLines)

\* what parse_package_list may yield, over all these package list files
YieldedFromFiles == UNION {ParsePackageList(lines) : lines \in PackageListFiles}

HandText == <<"hand-written">>
ForeignGeneratedText == <<"// ", AUTO_GENERATE_NOTE, "older">>

\* what may lie below root_dir before the first call: files placed by hand,
\* descriptors left by an earlier generation, empty directories
SeedDirs == {<<>>, <<NameA>>, <<NameB>>, <<NameHidden>>, <<NameA, NameB>>}

SeedFiles ==
    {[path |-> Append(d, n), node |-> FileNode(t)] :
        d \in SeedDirs,
        n \in {ANDROID_XML_FILE_NAME, ANDROID_BP_FILE_NAME},
        t \in {HandText, ForeignGeneratedText}}
    \cup {[path |-> Append(d, NOTES_FILE_NAME), node |-> FileNode(HandText)] : d \in SeedDirs}

SeedEmptyDirs ==
    {[path |-> d, node |-> DirNode] : d \in {<<NameA>>, <<NameHidden>>, <<NameA, NameB>>}}

Ancestors(p) == {SubSeq(p, 1, k) : k \in 1..(Len(p) - 1)}

TreeOf(seeds) ==
    LET given == {s.path : s \in seeds}
        dirs == UNION {Ancestors(p) : p \in given}
    IN  [q \in given \cup dirs |->
            IF q \in dirs THEN DirNode ELSE (CHOOSE s \in seeds : s.path = q).node]

InitTrees ==
    {TreeOf(seeds) :
        seeds \in {S \in SubsetsUpTo(SeedFiles \cup SeedEmptyDirs, MaxInitEntries) :
                      \A s, t \in S : s.path = t.path => s = t}}

NoCall == [op |-> "none", readable |-> FALSE, pkgs |-> {}, result |-> "none", rmdirs |-> {}]

GenStart ==
    /\ fs \in InitTrees
    /\ last = NoCall

GenIdle ==
    /\ fs = <<>>
    /\ last = NoCall

\* generate_all_modules_from_config(package_list_file_path, root_dir), the
\* package list readable
GenerateAllModulesFromConfig ==
    \E yielded \in YieldedFromFiles :
        LET r == GenerateLoop(RemoveExistingPackageFiles(fs), yielded)
        IN  /\ fs' = r.fs
            /\ last' = [op |-> "generate", readable |-> TRUE,
                        pkgs |-> Range(yielded), result |-> r.err,
                        rmdirs |-> Rmdirs(fs)]

\* the same call when open(package_list_file_path) raises: the cleanup has run
GenerateAllNoPackageList ==
    /\ fs' = RemoveExistingPackageFiles(fs)
    /\ last' = [op |-> "generate", readable |-> FALSE,
                pkgs |-> {}, result |-> "FileNotFoundError", rmdirs |-> Rmdirs(fs)]

\* remove_existing_package_files(root_dir) called on its own
RemoveExisting ==
    /\ fs' = RemoveExistingPackageFiles(fs)
    /\ last' = [op |-> "remove", readable |-> FALSE, pkgs |-> {}, result |-> "ok",
                rmdirs |-> Rmdirs(fs)]

-----------------------------------------------------------------------------
(* parse_package_list as a state machine: one call on one file.            *)

ParseAlphabet == {" ", "#", "a"}

ParseLines == SeqsUpTo(ParseAlphabet, MaxLineLen)

ParseStart ==
    /\ pkg_file \in SeqsUpTo(ParseLines, MaxParseLines)
    /\ pkg_out = <<>>
    /\ pkg_done = FALSE

ParseIdle ==
    /\ pkg_file = <<>>
    /\ pkg_out = <<>>
    /\ pkg_done = FALSE

\* list(parse_package_list(package_list_file)): the generator run to its end
ParsePackageListCall ==
    /\ ~pkg_done
    /\ \E yielded \in ParsePackageList(pkg_file) : pkg_out' = yielded
    /\ pkg_done' = TRUE
    /\ UNCHANGED pkg_file

-----------------------------------------------------------------------------
(* CSuiteHarness.run_and_wait: the environment handed to the launcher.     *)

ANDROID_BUILD_TOP == "ANDROID_BUILD_TOP"
ANDROID_HOST_OUT == "ANDROID_HOST_OUT"
ANDROID_HOST_OUT_TESTCASES == "ANDROID_HOST_OUT_TESTCASES"
ANDROID_TARGET_OUT_TESTCASES == "ANDROID_TARGET_OUT_TESTCASES"
ANDROID_SERIAL == "ANDROID_SERIAL"

\* the variables run_and_wait deletes, in the order of its del statements
DeletedVariables ==
    <<ANDROID_BUILD_TOP, ANDROID_HOST_OUT, ANDROID_HOST_OUT_TESTCASES,
      ANDROID_TARGET_OUT_TESTCASES, ANDROID_SERIAL>>

TestcasesDir == "<suite_dir>/android-csuite/testcases"

\* del env[key]: KeyError when the key is not set
DelKey(env, key) ==
    IF key \in DOMAIN env
    THEN [env |-> [k \in DOMAIN env \ {key} |-> env[k]], err |-> "ok"]
    ELSE [env |-> env, err |-> "KeyError"]

RECURSIVE DelKeys(_, _)
DelKeys(env, keys) ==
    IF keys = <<>>
    THEN [env |-> env, err |-> "ok"]
    ELSE LET r == DelKey(env, Head(keys))
         IN  IF r.err # "ok" THEN r ELSE DelKeys(r.env, Tail(keys))

\* run_and_wait up to subprocess.run: env = os.environ.copy(), the del
\* statements, then env['ANDROID_TARGET_OUT_TESTCASES'] = self._testcases_dir
LauncherEnv(os_environ) ==
    LET cleared == DelKeys(os_environ, DeletedVariables)
    IN  IF cleared.err # "ok"
        THEN cleared
        ELSE [env |-> [k \in DOMAIN cleared.env \cup {ANDROID_TARGET_OUT_TESTCASES} |->
                          IF k = ANDROID_TARGET_OUT_TESTCASES
                          THEN TestcasesDir
                          ELSE cleared.env[k]],
              err |-> "ok"]

-----------------------------------------------------------------------------
(* CrashDetectionTest.run_and_verify, one statement group at a time.       *)

TargetPackage == "android.csuite.nocrashtestapp"
OtherPackage == "com.android.settings"
APP_LAUNCHED == "App launched"

\* the stages of a run, in the order of the statements of run_and_verify
Stages ==
    <<"ensure_clean", "add_module", "add_package_apks", "clear_log",
      "run_and_wait", "collect_log", "check_marker", "check_absent">>

NoProcess == [ran |-> FALSE, returncode |-> 0, stdout |-> ""]

Begin(r, stage) == [r EXCEPT !.started = Append(@, stage)]

Effect(r, what) == [r EXCEPT !.events = Append(@, what)]

\* the statement group completes; control moves to the next one
Finish(r, stage, next) == [r EXCEPT !.completed = Append(@, stage), !.pc = next]

\* an exception leaves run_and_verify: nothing after it runs
Raise(r, exc) == [r EXCEPT !.pc = "raised", !.outcome = exc]

\* Adb.list_packages followed by assertNotIn(test_app_package, ...)
AssertAbsent(r, adb_ok, stage, next) ==
    IF ~adb_ok
    THEN Raise(Effect(r, "list: failed"), "CalledProcessError")
    ELSE IF TargetPackage \in r.installed
    THEN Raise(Effect(r, "list: present"), "AssertionError")
    ELSE Finish(Effect(r, "list: absent"), stage, next)

\* the absence assertion left out
EnsureCleanUnchecked(r, uninstall_works, adb_ok) ==
    Finish(Effect(Begin(r, "ensure_clean"), "uninstall"), "ensure_clean", "add_module")

\* adb.uninstall(test_app_package, check=False), then the absence check.
\* With check=False a non-zero exit of adb uninstall does not raise.
EnsureClean(r, uninstall_works, adb_ok) ==
    LET removed == IF uninstall_works THEN r.installed \ {TargetPackage} ELSE r.installed
        r1 == Effect([Begin(r, "ensure_clean") EXCEPT !.installed = removed], "uninstall")
    IN  AssertAbsent(r1, adb_ok, "ensure_clean", "add_module")

\* harness.add_module: subprocess.check_output of the module generator
AddModule(r, generator_ok) ==
    IF generator_ok
    THEN Finish(Effect(Begin(r, "add_module"), "generate"), "add_module", "add_package_apks")
    ELSE Raise(Effect(Begin(r, "add_module"), "generate: failed"), "CalledProcessError")

\* get_test_app_apks (RuntimeError when the apk is not beside the test), then
\* repo.add_package_apks
AddPackageApks(r, apk_found) ==
    IF apk_found
    THEN Finish(Effect(Begin(r, "add_package_apks"), "stage"), "add_package_apks", "clear_log")
    ELSE Raise(Begin(r, "add_package_apks"), "RuntimeError")

\* adb.run(['logcat', '-c']), check defaulting to True
ClearLog(r, adb_ok) ==
    IF adb_ok
    THEN Finish(Effect([Begin(r, "clear_log") EXCEPT !.logbuf = {}], "logcat -c"),
                "clear_log", "run_and_wait")
    ELSE Raise(Effect(Begin(r, "clear_log"), "logcat -c: failed"), "CalledProcessError")

\* what the launcher does to the device: it installs the package, launches
\* it (the app may or may not get to log the marker) and uninstalls it, or
\* leaves it installed
HarnessBehaviours == [logs_marker : BOOLEAN, leaves_installed : BOOLEAN]

\* subprocess.run(..., check=True) in place of check=False
RunAndWaitChecked(r, behaviour, returncode, stdout) ==
    LET env == LauncherEnv(r.environ)
        r1 == Begin(r, "run_and_wait")
        logged == IF behaviour.logs_marker
                  THEN {[tag |-> TargetPackage, msg |-> APP_LAUNCHED]}
                  ELSE {}
        after == IF behaviour.leaves_installed
                 THEN r.installed \cup {TargetPackage}
                 ELSE r.installed \ {TargetPackage}
        r2 == Effect([r1 EXCEPT !.launcher = [ran |-> TRUE, returncode |-> returncode,
                                              stdout |-> stdout],
                                !.launcher_env = env.env,
                                !.logbuf = @ \cup logged,
                                !.installed = after], "launch")
    IN  IF env.err # "ok"
        THEN Raise(r1, env.err)
        ELSE IF returncode # 0
        THEN Raise(r2, "CalledProcessError")
        ELSE Finish(r2, "run_and_wait", "collect_log")

\* harness.run_and_wait: the launcher runs under the prepared environment;
\* check=False, the CompletedProcess is returned whatever the exit code
RunAndWait(r, behaviour, returncode, stdout) ==
    LET env == LauncherEnv(r.environ)
        r1 == Begin(r, "run_and_wait")
        logged == IF behaviour.logs_marker
                  THEN {[tag |-> TargetPackage, msg |-> APP_LAUNCHED]}
                  ELSE {}
        after == IF behaviour.leaves_installed
                 THEN r.installed \cup {TargetPackage}
                 ELSE r.installed \ {TargetPackage}
    IN  IF env.err # "ok"
        THEN Raise(r1, env.err)
        ELSE Finish(Effect([r1 EXCEPT !.launcher = [ran |-> TRUE, returncode |-> returncode,
                                                    stdout |-> stdout],
                                      !.launcher_env = env.env,
                                      !.logbuf = @ \cup logged,
                                      !.installed = after], "launch"),
                    "run_and_wait", "collect_log")

\* adb.run(['logcat', '-d', '-v', 'brief', '-s', tag or test_app_package])
CollectLog(r, adb_ok) ==
    IF adb_ok
    THEN Finish(Effect([Begin(r, "collect_log") EXCEPT
                           !.logcat_stdout = {l.msg : l \in {x \in r.logbuf : x.tag = TargetPackage}}],
                       "logcat -d"),
                "collect_log", "check_marker")
    ELSE Raise(Effect(Begin(r, "collect_log"), "logcat -d: failed"), "CalledProcessError")

\* self.assertIn('App launched', logcat_process.stdout)
CheckMarker(r) ==
    IF APP_LAUNCHED \in r.logcat_stdout
    THEN Finish(Begin(r, "check_marker"), "check_marker", "check_absent")
    ELSE Raise(Begin(r, "check_marker"), "AssertionError")

\* the post-run check left out
CheckAbsentSkipped(r, adb_ok) ==
    [Finish(Begin(r, "check_absent"), "check_absent", "returned") EXCEPT !.outcome = "returned"]

\* self.assertNotIn(test_app_package, adb.list_packages()); return launcher_process
CheckAbsent(r, adb_ok) ==
    LET r1 == AssertAbsent(Begin(r, "check_absent"), adb_ok, "check_absent", "returned")
    IN  IF r1.pc = "returned" THEN [r1 EXCEPT !.outcome = "returned"] ELSE r1

\* the parent environments a run is started in
AllVariablesSet ==
    [k \in Range(DeletedVariables) \cup {"PATH"} |-> "inherited"]

RunEnvirons ==
    {AllVariablesSet, [k \in DOMAIN AllVariablesSet \ {ANDROID_SERIAL} |-> "inherited"]}

StaleLogLines ==
    {[tag |-> TargetPackage, msg |-> APP_LAUNCHED], [tag |-> OtherPackage, msg |-> APP_LAUNCHED]}

\* the with statement has entered both resources and Adb() is built
RunStart ==
    /\ run \in [pc : {"ensure_clean"},
                started : {<<>>}, completed : {<<>>}, events : {<<>>},
                outcome : {"running"},
                installed : SUBSET {TargetPackage, OtherPackage},
                logbuf : SUBSET StaleLogLines,
                environ : RunEnvirons,
                launcher : {NoProcess},
                launcher_env : {<<>>},
                logcat_stdout : {{}}]
    /\ twin = run

RunIdle ==
    /\ run = [pc |-> "idle"]
    /\ twin = [pc |-> "idle"]

\* both executions meet the same environment: whichever is at the stage
\* takes the step
At(stage) == run.pc = stage \/ twin.pc = stage

DoEnsureClean ==
    /\ At("ensure_clean")
    /\ \E uninstall_works, adb_ok \in BOOLEAN :
         /\ run' = IF run.pc = "ensure_clean" THEN EnsureClean(run, uninstall_works, adb_ok) ELSE run
         /\ twin' = IF twin.pc = "ensure_clean" THEN EnsureClean(twin, uninstall_works, adb_ok) ELSE twin

DoAddModule ==
    /\ At("add_module")
    /\ \E generator_ok \in BOOLEAN :
         /\ run' = IF run.pc = "add_module" THEN AddModule(run, generator_ok) ELSE run
         /\ twin' = IF twin.pc = "add_module" THEN AddModule(twin, generator_ok) ELSE twin

DoAddPackageApks ==
    /\ At("add_package_apks")
    /\ \E apk_found \in BOOLEAN :
         /\ run' = IF run.pc = "add_package_apks" THEN AddPackageApks(run, apk_found) ELSE run
         /\ twin' = IF twin.pc = "add_package_apks" THEN AddPackageApks(twin, apk_found) ELSE twin

DoClearLog ==
    /\ At("clear_log")
    /\ \E adb_ok \in BOOLEAN :
         /\ run' = IF run.pc = "clear_log" THEN ClearLog(run, adb_ok) ELSE run
         /\ twin' = IF twin.pc = "clear_log" THEN ClearLog(twin, adb_ok) ELSE twin

ReturnCodes == {0, 1}
LauncherStdouts == {"PASSED: 1", "FAILED: 1"}

\* the two launchers behave alike on the device; each exits and prints as
\* it will
DoRunAndWait ==
    /\ At("run_and_wait")
    /\ \E behaviour \in HarnessBehaviours :
         /\ \E rc \in ReturnCodes, out \in LauncherStdouts :
              run' = IF run.pc = "run_and_wait" THEN RunAndWait(run, behaviour, rc, out) ELSE run
         /\ \E rc \in ReturnCodes, out \in LauncherStdouts :
              twin' = IF twin.pc = "run_and_wait" THEN RunAndWait(twin, behaviour, rc, out) ELSE twin

DoCollectLog ==
    /\ At("collect_log")
    /\ \E adb_ok \in BOOLEAN :
         /\ run' = IF run.pc = "collect_log" THEN CollectLog(run, adb_ok) ELSE run
         /\ twin' = IF twin.pc = "collect_log" THEN CollectLog(twin, adb_ok) ELSE twin

DoCheckMarker ==
    /\ At("check_marker")
    /\ run' = IF run.pc = "check_marker" THEN CheckMarker(run) ELSE run
    /\ twin' = IF twin.pc = "check_marker" THEN CheckMarker(twin) ELSE twin

DoCheckAbsent ==
    /\ At("check_absent")
    /\ \E adb_ok \in BOOLEAN :
         /\ run' = IF run.pc = "check_absent" THEN CheckAbsent(run, adb_ok) ELSE run
         /\ twin' = IF twin.pc = "check_absent" THEN CheckAbsent(twin, adb_ok) ELSE twin

-----------------------------------------------------------------------------
(* run_and_wait as a state machine: one call under a parent environment.   *)

NotCalled == [called |-> FALSE, err |-> "none", launched |-> FALSE, env |-> <<>>]

EnvStart ==
    /\ environ \in UNION {[S -> {"inherited"}] :
                            S \in SUBSET (Range(DeletedVariables) \cup {"PATH"})}
    /\ env_call = NotCalled

EnvIdle ==
    /\ environ = <<>>
    /\ env_call = NotCalled

\* harness.run_and_wait(flags): the launcher is started only when every del
\* statement went through
RunAndWaitCall ==
    /\ ~env_call.called
    /\ LET prepared == LauncherEnv(environ)
       IN  env_call' = [called |-> TRUE, err |-> prepared.err,
                        launched |-> prepared.err = "ok",
                        env |-> IF prepared.err = "ok" THEN prepared.env ELSE <<>>]
    /\ UNCHANGED environ

-----------------------------------------------------------------------------
(* PackageRepository.add_package_apks.                                     *)

PackageNames == {"pkg.one", "pkg.two"}

\* apk files that exist beside the test, by path, with their content
SourceFiles ==
    (<<"testdir", "base.apk">> :> "base of testdir")
        @@ (<<"other", "base.apk">> :> "base of other")
        @@ (<<"testdir", "split.apk">> :> "split of testdir")

\* the paths a caller may pass: the above and one that does not exist
ApkPaths == DOMAIN SourceFiles \cup {<<"testdir", "missing.apk">>}

\* the file name shutil.copy gives the copy inside the directory
Basename(path) == path[Len(path)]

\* shutil.copy(f, apk_dir): FileNotFoundError when f does not exist; an
\* existing file of that name in apk_dir is overwritten
CopyInto(dir, f) ==
    IF f \notin DOMAIN SourceFiles
    THEN [dir |-> dir, err |-> "FileNotFoundError"]
    ELSE [dir |-> [n \in DOMAIN dir \cup {Basename(f)} |->
                      IF n = Basename(f) THEN SourceFiles[f] ELSE dir[n]],
          err |-> "ok"]

RECURSIVE CopyAll(_, _)
CopyAll(dir, apk_paths) ==
    IF apk_paths = <<>>
    THEN [dir |-> dir, err |-> "ok"]
    ELSE LET r == CopyInto(dir, Head(apk_paths))
         IN  IF r.err # "ok" THEN r ELSE CopyAll(r.dir, Tail(apk_paths))

\* apk_dir.mkdir(exist_ok=True) in place of apk_dir.mkdir()
MkdirExistOk(rp, package_name) ==
    [repo |-> [p \in DOMAIN rp \cup {package_name} |->
                  IF p \in DOMAIN rp THEN rp[p] ELSE <<>>],
     err |-> "ok"]

\* apk_dir.mkdir(): raises if the directory already exists
Mkdir(rp, package_name) ==
    IF package_name \in DOMAIN rp
    THEN [repo |-> rp, err |-> "FileExistsError"]
    ELSE [repo |-> [p \in DOMAIN rp \cup {package_name} |->
                       IF p = package_name THEN <<>> ELSE rp[p]],
          err |-> "ok"]

\* add_package_apks(package_name, apk_paths): what was copied before a raise
\* stays in the directory
AddPackageApksTo(rp, package_name, apk_paths) ==
    LET made == Mkdir(rp, package_name)
    IN  IF made.err # "ok"
        THEN made
        ELSE LET copied == CopyAll(made.repo[package_name], apk_paths)
             IN  [repo |-> [made.repo EXCEPT ![package_name] = copied.dir],
                  err |-> copied.err]

RepoNoCall ==
    [calls |-> 0, pkg |-> "", paths |-> <<>>, result |-> "none", raised_copying |-> {}]

\* PackageRepository(): an empty temporary directory
RepoStart ==
    /\ repo = <<>>
    /\ repo_last = RepoNoCall

RepoIdle ==
    /\ repo = <<>>
    /\ repo_last = RepoNoCall

RepoAddPackageApks ==
    /\ repo_last.calls < MaxRepoCalls
    /\ \E package_name \in PackageNames, apk_paths \in SeqsUpTo(ApkPaths, MaxApkPaths) :
         LET r == AddPackageApksTo(repo, package_name, apk_paths)
         IN  /\ repo' = r.repo
             /\ repo_last' =
                  [calls |-> repo_last.calls + 1,
                   pkg |-> package_name,
                   paths |-> apk_paths,
                   result |-> r.err,
                   raised_copying |->
                       IF r.err = "FileNotFoundError"
                       THEN repo_last.raised_copying \cup {package_name}
                       ELSE repo_last.raised_copying]

-----------------------------------------------------------------------------
(* Adb: run, shell, uninstall.                                             *)

\* Python's None where a record is expected
None == [type |-> "NoneType"]

\* the check parameter: left at its default None, or a bool
Omitted == <<>>
Given(b) == <<b>>
CheckValues == {Omitted, Given(TRUE), Given(FALSE)}

DevicePackages == {TargetPackage, OtherPackage}

\* what the adb process leaves behind: exit code and captured streams, and
\* the packages installed afterwards
ProcessExit(returncode, stdout, stderr, installed) ==
    [returncode |-> returncode, stdout |-> stdout, stderr |-> stderr,
     installed |-> installed]

DeviceUnreachable(installed) == ProcessExit(1, "", "error: device offline", installed)

\* the adb program on a command line: it exits non-zero when the device
\* cannot be reached and when asked to uninstall a package that is not
\* installed
AdbProcess(installed, args) ==
    {DeviceUnreachable(installed)} \cup
    IF Head(args) = "uninstall"
    THEN IF args[2] \in installed
         THEN {ProcessExit(0, "Success", "", installed \ {args[2]})}
         ELSE {ProcessExit(1, "Failure [DELETE_FAILED_INTERNAL_ERROR]", "", installed)}
    ELSE IF Head(args) = "install"
    THEN {ProcessExit(0, "Success", "", installed \cup {args[2]})}
    ELSE {ProcessExit(0, "", "", installed)}

\* subprocess.CompletedProcess
CompletedProcess(cmd, exit) ==
    [args |-> cmd, returncode |-> exit.returncode,
     stdout |-> exit.stdout, stderr |-> exit.stderr]

\* subprocess.CalledProcessError
CalledProcessError(cmd, exit) ==
    [type |-> "CalledProcessError", cmd |-> cmd, returncode |-> exit.returncode,
     stdout |-> exit.stdout, stderr |-> exit.stderr]

\* subprocess.run(cmd, capture_output=True, check=check), the process done
SubprocessRun(cmd, check, exit) ==
    IF check /\ exit.returncode # 0
    THEN [raised |-> TRUE, error |-> CalledProcessError(cmd, exit), value |-> None]
    ELSE [raised |-> FALSE, error |-> None, value |-> CompletedProcess(cmd, exit)]

\* self._args: the binary and the device serial
AdbArgs == <<"adb", "-s", "serial">>

\* Adb.run with `if check is None: check = False`
RunUncheckedByDefault(args, check, exit) ==
    SubprocessRun(AdbArgs \o args, IF check = Omitted THEN FALSE ELSE check[1], exit)

\* Adb.run
Run(args, check, exit) ==
    SubprocessRun(AdbArgs \o args, IF check = Omitted THEN TRUE ELSE check[1], exit)

\* Adb.shell
Shell(args, check, exit) == Run(<<"shell">> \o args, check, exit)

\* Adb.uninstall: returns nothing
Uninstall(package_name, check, exit) ==
    LET r == Run(<<"uninstall", package_name>>, check, exit)
    IN  [r EXCEPT !.value = None]

\* argument lists given to Adb.run and to Adb.shell
RunArgs ==
    {<<"install", p>> : p \in DevicePackages}
        \cup {<<"uninstall", p>> : p \in DevicePackages}
        \cup {<<"logcat", "-c">>}

ShellArgs == {<<"pm", "list", "packages">>, <<"am", "force-stop", TargetPackage>>}

AdbNoCall ==
    [op |-> "none", args |-> <<>>, check |-> Omitted, before |-> {},
     exit |-> ProcessExit(0, "", "", {}), raised |-> FALSE, error |-> None, value |-> None]

AdbStart ==
    /\ adb_device \in SUBSET DevicePackages
    /\ adb_last = AdbNoCall

AdbIdle ==
    /\ adb_device = {}
    /\ adb_last = AdbNoCall

\* the record of a call: what was asked, what the process did, what came back
AdbCall(op, args, check, exit, r) ==
    [op |-> op, args |-> args, check |-> check, before |-> adb_device,
     exit |-> exit, raised |-> r.raised, error |-> r.error, value |-> r.value]

AdbRun ==
    \E args \in RunArgs, check \in CheckValues :
        \E exit \in AdbProcess(adb_device, args) :
            /\ adb_device' = exit.installed
            /\ adb_last' = AdbCall("run", args, check, exit, Run(args, check, exit))

AdbShell ==
    \E args \in ShellArgs, check \in CheckValues :
        \E exit \in AdbProcess(adb_device, <<"shell">> \o args) :
            /\ adb_device' = exit.installed
            /\ adb_last' = AdbCall("shell", args, check, exit, Shell(args, check, exit))

AdbUninstall ==
    \E package_name \in DevicePackages, check \in CheckValues :
        \E exit \in AdbProcess(adb_device, <<"uninstall", package_name>>) :
            /\ adb_device' = exit.installed
            /\ adb_last' = AdbCall("uninstall", <<package_name>>, check, exit,
                                   Uninstall(package_name, check, exit))

-----------------------------------------------------------------------------
(* Scoped storage.                                                         *)

\* the temporary directories, by the prefix they are made with
HarnessDir == "csuite"
RepoDir == "csuite_apk_dir"
ModuleDir == "tmp"

\* tempfile.TemporaryDirectory(): mkdtemp may fail, and then nothing is made
MakeTemporaryDirectory(dirs, armed, d, mkdtemp_ok) ==
    IF mkdtemp_ok
    THEN [dirs |-> dirs \cup {d}, armed |-> armed \cup {d}, err |-> "ok"]
    ELSE [dirs |-> dirs, armed |-> armed, err |-> "OSError"]

\* TemporaryDirectory.cleanup(): removes the tree if the finalizer was still
\* attached or the path exists; otherwise it does nothing
Cleanup(dirs, armed, d) ==
    IF d \in armed \/ d \in dirs
    THEN [dirs |-> dirs \ {d}, armed |-> armed \ {d}]
    ELSE [dirs |-> dirs, armed |-> armed]

\* an __exit__ that returns without calling cleanup()
ExitKeepsStorage(dirs, armed, d) == [dirs |-> dirs, armed |-> armed]

\* CSuiteHarness.__exit__ / PackageRepository.__exit__: self.cleanup(); the
\* same for the with block of add_module
Exit(dirs, armed, d) == Cleanup(dirs, armed, d)

\* leaving nested with blocks, innermost first
RECURSIVE Unwind(_, _, _)
Unwind(dirs, armed, entered) ==
    IF entered = <<>>
    THEN [dirs |-> dirs, armed |-> armed]
    ELSE LET r == Exit(dirs, armed, entered[Len(entered)])
         IN  Unwind(r.dirs, r.armed, SubSeq(entered, 1, Len(entered) - 1))

\* the body of a test: positions, and the with blocks entered, outermost
\* first
ScopeBegin ==
    [pc |-> "harness", step |-> "none", entered |-> <<>>, armed |-> {},
     outcome |-> "none", steps |-> 0, cleaned |-> {}, twice |-> {}, left |-> {}]

ScopeStart ==
    /\ tmp_dirs = {}
    /\ scope = ScopeBegin

ScopeIdle ==
    /\ tmp_dirs = {}
    /\ scope = [pc |-> "idle"]

\* the block ends here, by return or by an exception: every with block
\* entered is left
Leave(outcome) ==
    LET r == Unwind(tmp_dirs, scope.armed, scope.entered)
    IN  /\ tmp_dirs' = r.dirs
        /\ scope' = [scope EXCEPT !.pc = "done", !.step = "none", !.armed = r.armed,
                                  !.outcome = outcome, !.entered = <<>>,
                                  !.left = Range(scope.entered)]

\* CSuiteHarness(): the temporary directory, then the archive is extracted
\* into it; a raise in __init__ leaves the with statement before the harness
\* is entered
NewHarness ==
    /\ scope.pc = "harness"
    /\ \E mkdtemp_ok \in BOOLEAN, extract_ok \in BOOLEAN :
         LET made == MakeTemporaryDirectory(tmp_dirs, scope.armed, HarnessDir, mkdtemp_ok)
         IN  /\ tmp_dirs' = made.dirs
             /\ scope' =
                  IF made.err = "ok" /\ extract_ok
                  THEN [scope EXCEPT !.pc = "repo", !.armed = made.armed,
                                     !.entered = <<HarnessDir>>]
                  ELSE [scope EXCEPT !.pc = "done", !.armed = made.armed,
                                     !.outcome = "raised"]

\* PackageRepository(), second in the with statement: a raise leaves the
\* harness's block
NewRepo ==
    /\ scope.pc = "repo"
    /\ \E mkdtemp_ok \in BOOLEAN :
         LET made == MakeTemporaryDirectory(tmp_dirs, scope.armed, RepoDir, mkdtemp_ok)
         IN  IF made.err = "ok"
             THEN /\ tmp_dirs' = made.dirs
                  /\ scope' = [scope EXCEPT !.pc = "body", !.armed = made.armed,
                                            !.entered = <<HarnessDir, RepoDir>>]
             ELSE Leave("raised")

\* harness.cleanup() or repo.cleanup() called in the body
ExplicitCleanup ==
    /\ scope.pc = "body"
    /\ scope.steps < MaxBodySteps
    /\ \E d \in {HarnessDir, RepoDir} :
         LET r == Cleanup(tmp_dirs, scope.armed, d)
         IN  /\ tmp_dirs' = r.dirs
             /\ scope' = [scope EXCEPT !.armed = r.armed, !.steps = @ + 1,
                                       !.cleaned = @ \cup {d},
                                       !.twice = IF d \in scope.cleaned
                                                 THEN @ \cup {d} ELSE @]

\* a statement of the body raises
BodyRaises ==
    /\ scope.pc = "body"
    /\ Leave("raised")

\* the body runs to its end
BodyEnds ==
    /\ scope.pc = "body"
    /\ Leave("returned")

\* harness.add_module(package_name): with tempfile.TemporaryDirectory() as o
AddModuleEnter ==
    /\ scope.pc = "body"
    /\ scope.steps < MaxBodySteps
    /\ \E mkdtemp_ok \in BOOLEAN :
         LET made == MakeTemporaryDirectory(tmp_dirs, scope.armed, ModuleDir, mkdtemp_ok)
         IN  IF made.err = "ok"
             THEN /\ tmp_dirs' = made.dirs
                  /\ scope' = [scope EXCEPT !.pc = "add_module", !.step = "write_text",
                                            !.armed = made.armed, !.steps = @ + 1,
                                            !.entered = Append(@, ModuleDir)]
             ELSE Leave("raised")

\* a statement inside add_module's with block (write_text, check_output,
\* copy), each of which may raise; the generator binary and the testcases
\* directory are in the harness's directory
AddModuleStep ==
    /\ scope.pc = "add_module"
    /\ \E ok \in BOOLEAN :
         LET needs_harness == scope.step \in {"check_output", "copy"}
         IN  IF ~ok \/ (needs_harness /\ HarnessDir \notin tmp_dirs)
             THEN Leave("raised")
             ELSE IF scope.step = "copy"
             THEN \* return module_name: the with block of add_module is left
                  LET r == Exit(tmp_dirs, scope.armed, ModuleDir)
                  IN  /\ tmp_dirs' = r.dirs
                      /\ scope' = [scope EXCEPT !.pc = "body", !.step = "none",
                                                !.armed = r.armed,
                                                !.entered = <<HarnessDir, RepoDir>>]
             ELSE /\ tmp_dirs' = tmp_dirs
                  /\ scope' = [scope EXCEPT !.step =
                                   IF @ = "write_text" THEN "check_output" ELSE "copy"]

\* a TemporaryDirectory no longer referenced is finalized: its directory is
\* removed (with a ResourceWarning)
Finalize ==
    /\ scope.pc = "done"
    /\ \E d \in scope.armed :
         /\ tmp_dirs' = tmp_dirs \ {d}
         /\ scope' = [scope EXCEPT !.armed = @ \ {d}]

-----------------------------------------------------------------------------
(* write_test_module.                                                      *)

\* characters a package name is made of
XmlAlphabet == {"a", "&", "<", "\"", "\t", "l", "t", ";"}

XmlPackageNames == SeqsUpTo(XmlAlphabet, MaxNameLen) \ {<<>>}

XmlStart ==
    \E package_name \in XmlPackageNames :
        xml_call = [called |-> FALSE, package_name |-> package_name, out_file |-> <<>>]

XmlIdle == xml_call = [called |-> FALSE]

\* write_test_module(package_name, out_file)
WriteTestModule ==
    /\ ~xml_call.called
    /\ xml_call' = [xml_call EXCEPT !.called = TRUE,
                                    !.out_file = TestModule(xml_call.package_name)]

-----------------------------------------------------------------------------
(* Specifications.                                                         *)

InitGen == GenStart /\ ParseIdle /\ RunIdle /\ EnvIdle /\ RepoIdle
    /\ AdbIdle /\ ScopeIdle /\ XmlIdle

NextGen ==
    \/ GenerateAllModulesFromConfig /\ UNCHANGED <<parseVars, runVars, envVars, repoVars, adbVars, scopeVars, xmlVars>>
    \/ GenerateAllNoPackageList /\ UNCHANGED <<parseVars, runVars, envVars, repoVars, adbVars, scopeVars, xmlVars>>
    \/ RemoveExisting /\ UNCHANGED <<parseVars, runVars, envVars, repoVars, adbVars, scopeVars, xmlVars>>

SpecGen == InitGen /\ [][NextGen]_vars

InitParse == ParseStart /\ GenIdle /\ RunIdle /\ EnvIdle /\ RepoIdle
    /\ AdbIdle /\ ScopeIdle /\ XmlIdle

NextParse == ParsePackageListCall /\ UNCHANGED <<genVars, runVars, envVars, repoVars, adbVars, scopeVars, xmlVars>>

SpecParse == InitParse /\ [][NextParse]_vars

InitRun == RunStart /\ GenIdle /\ ParseIdle /\ EnvIdle /\ RepoIdle
    /\ AdbIdle /\ ScopeIdle /\ XmlIdle

NextRun ==
    \/ DoEnsureClean /\ UNCHANGED <<genVars, parseVars, envVars, repoVars, adbVars, scopeVars, xmlVars>>
    \/ DoAddModule /\ UNCHANGED <<genVars, parseVars, envVars, repoVars, adbVars, scopeVars, xmlVars>>
    \/ DoAddPackageApks /\ UNCHANGED <<genVars, parseVars, envVars, repoVars, adbVars, scopeVars, xmlVars>>
    \/ DoClearLog /\ UNCHANGED <<genVars, parseVars, envVars, repoVars, adbVars, scopeVars, xmlVars>>
    \/ DoRunAndWait /\ UNCHANGED <<genVars, parseVars, envVars, repoVars, adbVars, scopeVars, xmlVars>>
    \/ DoCollectLog /\ UNCHANGED <<genVars, parseVars, envVars, repoVars, adbVars, scopeVars, xmlVars>>
    \/ DoCheckMarker /\ UNCHANGED <<genVars, parseVars, envVars, repoVars, adbVars, scopeVars, xmlVars>>
    \/ DoCheckAbsent /\ UNCHANGED <<genVars, parseVars, envVars, repoVars, adbVars, scopeVars, xmlVars>>

SpecRun == InitRun /\ [][NextRun]_vars

InitEnv == EnvStart /\ GenIdle /\ ParseIdle /\ RunIdle /\ RepoIdle
    /\ AdbIdle /\ ScopeIdle /\ XmlIdle

NextEnv == RunAndWaitCall /\ UNCHANGED <<genVars, parseVars, runVars, repoVars, adbVars, scopeVars, xmlVars>>

SpecEnv == InitEnv /\ [][NextEnv]_vars

InitRepo == RepoStart /\ GenIdle /\ ParseIdle /\ RunIdle /\ EnvIdle
    /\ AdbIdle /\ ScopeIdle /\ XmlIdle

NextRepo == RepoAddPackageApks /\ UNCHANGED <<genVars, parseVars, runVars, envVars, adbVars, scopeVars, xmlVars>>

SpecRepo == InitRepo /\ [][NextRepo]_vars

InitAdb == AdbStart /\ GenIdle /\ ParseIdle /\ RunIdle /\ EnvIdle /\ RepoIdle
    /\ ScopeIdle /\ XmlIdle

NextAdb ==
    \/ AdbRun /\ UNCHANGED <<genVars, parseVars, runVars, envVars, repoVars, scopeVars, xmlVars>>
    \/ AdbShell /\ UNCHANGED <<genVars, parseVars, runVars, envVars, repoVars, scopeVars, xmlVars>>
    \/ AdbUninstall /\ UNCHANGED <<genVars, parseVars, runVars, envVars, repoVars, scopeVars, xmlVars>>

SpecAdb == InitAdb /\ [][NextAdb]_vars

InitScope == ScopeStart /\ GenIdle /\ ParseIdle /\ RunIdle /\ EnvIdle /\ RepoIdle
    /\ AdbIdle /\ XmlIdle

NextScope ==
    \/ NewHarness /\ UNCHANGED <<genVars, parseVars, runVars, envVars, repoVars, adbVars, xmlVars>>
    \/ NewRepo /\ UNCHANGED <<genVars, parseVars, runVars, envVars, repoVars, adbVars, xmlVars>>
    \/ ExplicitCleanup /\ UNCHANGED <<genVars, parseVars, runVars, envVars, repoVars, adbVars, xmlVars>>
    \/ BodyRaises /\ UNCHANGED <<genVars, parseVars, runVars, envVars, repoVars, adbVars, xmlVars>>
    \/ BodyEnds /\ UNCHANGED <<genVars, parseVars, runVars, envVars, repoVars, adbVars, xmlVars>>
    \/ AddModuleEnter /\ UNCHANGED <<genVars, parseVars, runVars, envVars, repoVars, adbVars, xmlVars>>
    \/ AddModuleStep /\ UNCHANGED <<genVars, parseVars, runVars, envVars, repoVars, adbVars, xmlVars>>
    \/ Finalize /\ UNCHANGED <<genVars, parseVars, runVars, envVars, repoVars, adbVars, xmlVars>>

SpecScope == InitScope /\ [][NextScope]_vars

InitXml == XmlStart /\ GenIdle /\ ParseIdle /\ RunIdle /\ EnvIdle /\ RepoIdle
    /\ AdbIdle /\ ScopeIdle

NextXml ==
    WriteTestModule
        /\ UNCHANGED <<genVars, parseVars, runVars, envVars, repoVars, adbVars, scopeVars>>

SpecXml == InitXml /\ [][NextXml]_vars

-----------------------------------------------------------------------------
(* Properties of the generator.                                            *)

DESCRIPTOR_FILE_NAMES == {ANDROID_XML_FILE_NAME, ANDROID_BP_FILE_NAME}

IsDescriptor(f, q) == ~f[q].dir /\ q[Len(q)] \in DESCRIPTOR_FILE_NAMES

\* the descriptor files below root_dir, with their content
Descriptors(f) == [q \in {x \in DOMAIN f : IsDescriptor(f, x)} |-> f[q]]

\* the package directories that hold a descriptor carrying the marker
GeneratedPackages(f) ==
    {q[1] : q \in {x \in DOMAIN f : Len(x) = 2 /\ IsDescriptor(f, x)
                                     /\ IsAutoGenerated(f[x].text)}}

\* every file of f that lacks the marker is in g with the same content
UnmarkedFilesKept(f, g) ==
    \A q \in DOMAIN f :
        (~f[q].dir /\ ~IsAutoGenerated(f[q].text)) => (q \in DOMAIN g /\ g[q] = f[q])

\* this step is a generation that read its package list
GenerationStep == last'.op = "generate" /\ last'.readable

\* C1: regeneration is idempotent: when a generation with package list L has
\* succeeded, generating again at once with the same L succeeds too and
\* leaves the same descriptor files with the same content.
C1_RegenerationIdempotent ==
    [][(last.op = "generate" /\ last.result = "ok"
            /\ GenerationStep /\ last'.pkgs = last.pkgs)
        => (last'.result = "ok" /\ Descriptors(fs') = Descriptors(fs))]_vars

\* C2: after a successful generation with L1, a generation with a strict
\* subset L2 succeeds, leaves generated descriptors and package directories
\* for exactly the packages of L2, and keeps every file lacking the marker.
C2_SubsetRegeneration ==
    [][(last.op = "generate" /\ last.result = "ok"
            /\ GenerationStep /\ last'.pkgs \subseteq last.pkgs /\ last'.pkgs # last.pkgs)
        => (/\ last'.result = "ok"
            /\ GeneratedPackages(fs') = last'.pkgs
            /\ \A p \in last.pkgs \ last'.pkgs : <<p>> \notin DOMAIN fs'
            /\ UnmarkedFilesKept(fs, fs'))]_vars

\* C3: after remove_existing_package_files(root_dir) no AndroidTest.xml or
\* Android.bp carrying the marker remains at any depth below root_dir.
C3_CleanupRecursive ==
    last.op = "remove" =>
        \A q \in DOMAIN fs : IsDescriptor(fs, q) => ~IsAutoGenerated(fs[q].text)

\* the listed packages whose directory exists once the cleanup pass has run
Colliding(f, pkgs) == {p \in pkgs : <<p>> \in DOMAIN RemoveExistingPackageFiles(f)}

\* C4: when root_dir/<package> exists after the cleanup pass for a listed
\* package, generation raises and nothing at or below that existing
\* directory is created, truncated or modified.
C4_CollisionFailsWithoutOverwrite ==
    [][(GenerationStep /\ Colliding(fs, last'.pkgs) # {})
        => (/\ last'.result = "FileExistsError"
            /\ \A p \in Colliding(fs, last'.pkgs) :
                 LET cleaned == RemoveExistingPackageFiles(fs)
                     below(f) == {q \in DOMAIN f : q = <<p>> \/ IsUnder(q, <<p>>)}
                 IN  /\ below(fs') = below(cleaned)
                     /\ \A q \in below(cleaned) : fs'[q] = cleaned[q])]_vars

\* a generation has raised on a package directory that holds a hand-written
\* file, and the file is there
C4_Witness ==
    /\ last.op = "generate"
    /\ last.result = "FileExistsError"
    /\ \E p \in last.pkgs :
         \E q \in DOMAIN fs : IsUnder(q, <<p>>) /\ fs[q] = FileNode(HandText)

\* the descriptors below root_dir that carry the marker
MarkedDescriptors(f) ==
    {q \in DOMAIN f : IsDescriptor(f, q) /\ IsAutoGenerated(f[q].text)}

\* root_dir/<package> holds the two descriptors generation writes for it
ModuleWritten(f, package_name) ==
    /\ IsDir(f, <<package_name>>)
    /\ <<package_name, ANDROID_BP_FILE_NAME>> \in DOMAIN f
    /\ f[<<package_name, ANDROID_BP_FILE_NAME>>] = FileNode(BuildModule(package_name))
    /\ <<package_name, ANDROID_XML_FILE_NAME>> \in DOMAIN f
    /\ f[<<package_name, ANDROID_XML_FILE_NAME>>] = FileNode(TestModule(package_name))

\* nothing is at or below root_dir/<package> in g that was not there in f
NothingCreated(f, g, package_name) ==
    \A q \in DOMAIN g :
        (q = <<package_name>> \/ IsUnder(q, <<package_name>>))
            => (q \in DOMAIN f /\ g[q] = f[q])

\* C15: generation is not transactional: when a generation fails (package
\* list unreadable, or a directory collision), the descriptors carrying the
\* marker that were there before the call are gone, the modules of the
\* packages processed before the failure are on disk, complete, and no
\* directory was created for the package that failed or for a later one.
C15_FailureKeepsPartialResult ==
    [][(last'.op = "generate" /\ last'.result # "ok") =>
        \E o \in Orders(last'.pkgs) : \E k \in 0..Len(o) :
            /\ last'.readable => k < Len(o)
            /\ \A i \in 1..k : ModuleWritten(fs', o[i])
            /\ \A i \in (k + 1)..Len(o) : NothingCreated(fs, fs', o[i])
            /\ \A q \in MarkedDescriptors(fs) :
                   q \notin DOMAIN fs' \/ q[1] \in {o[i] : i \in 1..k}]_vars

\* a directory of f with no entry
EmptyDir(f, q) == f[q].dir /\ Listdir(f, q) = {}

\* C16: remove_existing_package_files removes every empty directory that is
\* an entry of root_dir, one that never held a descriptor too; a directory
\* it removes is an entry of root_dir (never root_dir, never a deeper
\* directory) and was left with nothing in it but descriptors the pass had
\* deleted; a directory that keeps an entry is kept.
C16_RemovesEmptyImmediateDirsOnly ==
    [][last'.op = "remove" =>
        /\ \A q \in DOMAIN fs : (Len(q) = 1 /\ EmptyDir(fs, q)) => q \notin DOMAIN fs'
        /\ \A q \in DOMAIN fs \ DOMAIN fs' :
               fs[q].dir =>
                   /\ Len(q) = 1
                   /\ Listdir(fs, q) \subseteq MarkedDescriptors(fs)
                   /\ \A c \in DOMAIN fs' : ~IsUnder(c, q)
        /\ \A q \in DOMAIN fs :
               (fs[q].dir /\ \E c \in Listdir(fs, q) : c \in DOMAIN fs')
                   => (q \in DOMAIN fs' /\ fs'[q] = fs[q])
        /\ <<>> \notin last'.rmdirs]_vars

\* a cleanup has removed an empty hidden directory that was there from the
\* start, and has left an empty directory two levels down where it was
C16_Witness ==
    /\ last.op = "remove"
    /\ <<NameHidden>> \in last.rmdirs
    /\ <<NameHidden>> \notin DOMAIN fs
    /\ <<NameA, NameB>> \in DOMAIN fs
    /\ EmptyDir(fs, <<NameA, NameB>>)

-----------------------------------------------------------------------------
(* Properties of parse_package_list.                                       *)

\* line with leading and trailing whitespace taken off, and no more: the
\* pieces of line between a whitespace prefix and a whitespace suffix that
\* neither begin nor end with whitespace
TrimsOf(line) ==
    {SubSeq(line, i + 1, Len(line) - j) :
        <<i, j>> \in {x \in (0..Len(line)) \X (0..Len(line)) :
            /\ x[1] + x[2] <= Len(line)
            /\ \A k \in 1..x[1] : line[k] \in Whitespace
            /\ \A k \in (Len(line) - x[2] + 1)..Len(line) : line[k] \in Whitespace
            /\ x[1] + x[2] < Len(line) =>
                 /\ line[x[1] + 1] \notin Whitespace
                 /\ line[Len(line) - x[2]] \notin Whitespace}}

IsIdentifier(t) == t # <<>> /\ t[1] # "#"

\* C5: parse_package_list yields each distinct whitespace-trimmed, non-blank,
\* non-comment identifier of the file exactly once, and nothing else.
C5_ParseYieldsDistinctIdentifiers ==
    pkg_done =>
        /\ \A i, j \in 1..Len(pkg_out) : i # j => pkg_out[i] # pkg_out[j]
        /\ \A i \in 1..Len(pkg_out) :
             /\ IsIdentifier(pkg_out[i])
             /\ \E k \in 1..Len(pkg_file) : pkg_out[i] \in TrimsOf(pkg_file[k])
        /\ \A k \in 1..Len(pkg_file) :
             \A t \in TrimsOf(pkg_file[k]) : IsIdentifier(t) => t \in Range(pkg_out)

\* two lines that differ only in surrounding whitespace were parsed to one entry
C5_Witness ==
    /\ pkg_done
    /\ Len(pkg_file) = 2
    /\ pkg_file[1] # pkg_file[2]
    /\ Len(pkg_out) = 1
    /\ pkg_out[1] \in TrimsOf(pkg_file[1])
    /\ pkg_out[1] \in TrimsOf(pkg_file[2])

-----------------------------------------------------------------------------
(* Properties of run_and_verify.                                           *)

IsPrefix(s, t) == Len(s) <= Len(t) /\ SubSeq(t, 1, Len(s)) = s

Terminated(r) == r.pc \in {"returned", "raised"}

\* the listing showed the package absent before the launcher ran
AbsenceVerifiedBefore(r) ==
    \E i, l \in 1..Len(r.events) :
        i < l /\ r.events[i] = "list: absent" /\ r.events[l] = "launch"

\* the package was looked for in the listing after the launcher ran
AbsenceCheckedAfter(r) ==
    \E l, i \in 1..Len(r.events) :
        l < i /\ r.events[l] = "launch" /\ r.events[i] \in {"list: absent", "list: present"}

AbsenceVerifiedAfter(r) ==
    \E l, i \in 1..Len(r.events) :
        l < i /\ r.events[l] = "launch" /\ r.events[i] = "list: absent"

\* C6: a run is a linear, fail-fast sequence: the stages start in the order
\* of Stages, each at most once, a stage starts only when every earlier one
\* completed without raising, a raise ends the run, and the launcher runs
\* only after the package was seen absent and the log buffer was cleared
\* after staging.
C6_LinearFailFast ==
    /\ IsPrefix(run.started, Stages)
    /\ IsPrefix(run.completed, run.started)
    /\ Len(run.started) <= Len(run.completed) + 1
    /\ (Len(run.started) = Len(run.completed) + 1) <=> (run.pc = "raised")
    /\ (run.pc = "returned") <=> (run.completed = Stages)
    /\ run.launcher.ran =>
         \E i, j, k, l \in 1..Len(run.events) :
             /\ i < j /\ j < k /\ k < l
             /\ run.events[i] = "list: absent"
             /\ run.events[j] = "stage"
             /\ run.events[k] = "logcat -c"
             /\ run.events[l] = "launch"

\* a run went through all eight stages and returned
C6_Witness ==
    /\ run.pc = "returned"
    /\ run.started = Stages
    /\ run.launcher.ran

\* C7 as stated: in every run that invokes the harness and ends in success
\* or in a classification failure, the package's absence is verified before
\* the invocation and checked again after it, before the run terminates.
C7_ReconciledBeforeAndAfter ==
    (run.launcher.ran /\ Terminated(run) /\ run.outcome \in {"returned", "AssertionError"})
        => (AbsenceVerifiedBefore(run) /\ AbsenceCheckedAfter(run))

\* C7 as amended: in every run that invokes the harness the package's
\* absence is verified before the invocation; it is verified after it when
\* the run ends in success, and looked for after it when the run ends in the
\* post-run still-installed failure; a run that ends in the log-marker
\* failure terminates without the post-run check.
C7_ReconciledUnlessMarkerMissing ==
    /\ run.launcher.ran => AbsenceVerifiedBefore(run)
    /\ run.outcome = "returned" => (run.launcher.ran /\ AbsenceVerifiedAfter(run))
    /\ (Terminated(run) /\ run.outcome = "AssertionError"
            /\ "check_marker" \in Range(run.completed))
         => AbsenceCheckedAfter(run)
    /\ (Terminated(run) /\ "check_marker" \in Range(run.started)
            /\ "check_marker" \notin Range(run.completed))
         => (run.outcome = "AssertionError" /\ ~AbsenceCheckedAfter(run))

\* a run that launched the harness has ended in success, the package seen
\* absent on both sides of the launch
C7_Witness ==
    /\ run.launcher.ran
    /\ run.outcome = "returned"
    /\ AbsenceVerifiedBefore(run)
    /\ AbsenceVerifiedAfter(run)

\* C8: two runs that differ only in the launcher's exit status and stdout
\* are always at the same statement and end alike; a run returns only when
\* the collected log holds the marker, and fails when it lacks it.
C8_OutcomeIndependentOfExit ==
    /\ run.pc = twin.pc
    /\ run.outcome = twin.outcome
    /\ run.outcome = "returned" => APP_LAUNCHED \in run.logcat_stdout
    /\ (Terminated(run) /\ "collect_log" \in Range(run.completed)
            /\ APP_LAUNCHED \notin run.logcat_stdout)
         => run.outcome = "AssertionError"

\* both runs returned, one launcher having exited 1 and printed a failure,
\* the other having exited 0 and printed a pass
C8_Witness ==
    /\ run.pc = "returned"
    /\ twin.pc = "returned"
    /\ run.launcher.returncode = 1
    /\ run.launcher.stdout = "FAILED: 1"
    /\ twin.launcher.returncode = 0
    /\ twin.launcher.stdout = "PASSED: 1"

-----------------------------------------------------------------------------
(* Properties of run_and_wait's environment.                               *)

\* C9: whatever the parent environment sets or leaves unset, run_and_wait
\* launches the harness, with an environment that holds none of
\* ANDROID_BUILD_TOP, ANDROID_HOST_OUT, ANDROID_HOST_OUT_TESTCASES and
\* ANDROID_SERIAL and whose ANDROID_TARGET_OUT_TESTCASES is the harness's
\* own testcases directory.
C9_LaunchedWithSanitizedEnvironment ==
    env_call.called =>
        /\ env_call.launched
        /\ \A k \in {ANDROID_BUILD_TOP, ANDROID_HOST_OUT, ANDROID_HOST_OUT_TESTCASES,
                     ANDROID_SERIAL} : k \notin DOMAIN env_call.env
        /\ ANDROID_TARGET_OUT_TESTCASES \in DOMAIN env_call.env
        /\ env_call.env[ANDROID_TARGET_OUT_TESTCASES] = TestcasesDir

-----------------------------------------------------------------------------
(* Properties of PackageRepository.                                        *)

\* this step is an add_package_apks call
RepoCallStep == repo_last'.calls = repo_last.calls + 1

\* C10: a package's directory is created once: an add_package_apks call for
\* a package that already has a directory (also one left by a call that
\* raised while copying) fails with FileExistsError, copies nothing and
\* leaves the repository as it was.
C10_SecondAddFailsUnchanged ==
    [][(RepoCallStep /\ repo_last'.pkg \in DOMAIN repo)
        => (repo_last'.result = "FileExistsError" /\ repo' = repo)]_vars

\* a call has failed with FileExistsError on a package whose first call had
\* raised while copying
C10_Witness ==
    /\ repo_last.result = "FileExistsError"
    /\ repo_last.pkg \in repo_last.raised_copying
    /\ repo_last.paths # <<>>

\* C11: after a successful add_package_apks call the package's directory
\* holds one file per supplied path, each with the content of the file
\* supplied, and nothing else; and no call changes the directory of another
\* package.
C11_DirectoryHoldsOneFilePerPath ==
    [][RepoCallStep =>
        LET package_name == repo_last'.pkg
            apk_paths == repo_last'.paths
        IN  /\ \A other \in DOMAIN repo \ {package_name} :
                  other \in DOMAIN repo' /\ repo'[other] = repo[other]
            /\ repo_last'.result = "ok" =>
                  /\ DOMAIN repo'[package_name] =
                         {Basename(apk_paths[i]) : i \in DOMAIN apk_paths}
                  /\ Cardinality(DOMAIN repo'[package_name]) = Len(apk_paths)
                  /\ \A i \in DOMAIN apk_paths :
                         repo'[package_name][Basename(apk_paths[i])]
                             = SourceFiles[apk_paths[i]]]_vars

-----------------------------------------------------------------------------
(* Properties of Adb.                                                      *)

\* the streams of the process are those the error carries
CarriesStreams(error, exit) ==
    /\ error # None
    /\ error.type = "CalledProcessError"
    /\ error.stdout = exit.stdout
    /\ error.stderr = exit.stderr
    /\ error.returncode = exit.returncode

\* C13: for Adb.run, Adb.shell and Adb.uninstall alike: with check omitted
\* or True a non-zero exit of the adb command raises CalledProcessError
\* carrying the captured streams; with check False a non-zero exit does not
\* raise, and run and shell return the completed process; so uninstalling a
\* package that is not installed, check False, does not raise.
C13_CheckSemantics ==
    adb_last.op \in {"run", "shell", "uninstall"} =>
        /\ (adb_last.check \in {Omitted, Given(TRUE)} /\ adb_last.exit.returncode # 0)
              => (adb_last.raised /\ CarriesStreams(adb_last.error, adb_last.exit))
        /\ (adb_last.check = Given(FALSE) /\ adb_last.exit.returncode # 0)
              => /\ ~adb_last.raised
                 /\ adb_last.op \in {"run", "shell"} =>
                        /\ adb_last.value # None
                        /\ adb_last.value.returncode = adb_last.exit.returncode
                        /\ adb_last.value.stdout = adb_last.exit.stdout
                        /\ adb_last.value.stderr = adb_last.exit.stderr
        /\ (adb_last.op = "uninstall" /\ adb_last.check = Given(FALSE)
                /\ adb_last.args[1] \notin adb_last.before)
              => ~adb_last.raised

\* uninstall with check omitted has raised on a package that was not
\* installed, the error carrying what adb printed
C13_Witness ==
    /\ adb_last.op = "uninstall"
    /\ adb_last.check = Omitted
    /\ adb_last.args[1] \notin adb_last.before
    /\ adb_last.raised
    /\ adb_last.error.stdout = "Failure [DELETE_FAILED_INTERNAL_ERROR]"

-----------------------------------------------------------------------------
(* Properties of scoped storage.                                           *)

\* C12: once the with statement is over, however it ended (the body
\* returned, a statement raised, the construction of the second resource
\* raised), the temporary directory of every resource that was entered is
\* gone, cleanup() having been called on it before or not; and the
\* temporary directory of add_module exists only while add_module runs.
C12_ScopedStorageReleased ==
    /\ scope.pc = "done" => \A d \in scope.left : d \notin tmp_dirs
    /\ scope.pc \in {"harness", "repo", "body", "done"} => ModuleDir \notin tmp_dirs
    /\ (scope.pc = "done" /\ scope.outcome = "returned")
          => scope.left = {HarnessDir, RepoDir}

\* a statement of add_module has raised after harness.cleanup() was called
\* twice in the body: all three directories had been made and the with
\* statement is over
C12_Witness ==
    /\ scope.pc = "done"
    /\ scope.outcome = "raised"
    /\ scope.left = {HarnessDir, RepoDir, ModuleDir}
    /\ HarnessDir \in scope.twice
    /\ tmp_dirs = {}

-----------------------------------------------------------------------------
(* Properties of write_test_module.                                        *)

\* the characters of the package-name option's value in a written module:
\* from the option's opening up to the first quote
RawPackageName(text) ==
    LET open == CHOOSE i \in DOMAIN text : text[i] = PACKAGE_NAME_OPTION
        close == CHOOSE j \in (open + 1)..Len(text) :
                     /\ text[j] \in {CLOSE_OPTION, "\""}
                     /\ \A k \in (open + 1)..(j - 1) : text[k] \notin {CLOSE_OPTION, "\""}
    IN  [chars |-> SubSeq(text, open + 1, close - 1), closed |-> text[close] = CLOSE_OPTION]

\* the module as an XML parser reads it
ParsedModule(text) ==
    LET raw == RawPackageName(text)
        parsed == ParseAttribute(raw.chars)
    IN  [well_formed |-> raw.closed /\ parsed.well_formed, package_name |-> parsed.value]

\* C14: for every non-empty package name, write_test_module writes
\* well-formed XML that holds the marker comment and a package-name option
\* whose parsed value is the package name.
C14_WrittenXmlRoundTrips ==
    xml_call.called =>
        /\ Contains(xml_call.out_file, AUTO_GENERATE_NOTE)
        /\ ParsedModule(xml_call.out_file).well_formed
        /\ ParsedModule(xml_call.out_file).package_name = xml_call.package_name

====
